---------------------------- MODULE Spec2Model ----------------------------
(***************************************************************************)
(* A model of app.py (MemeAI): the caption parser, the fallback caption    *)
(* generator, the caption service adapter, the memegen URL builder and the *)
(* Streamlit script run with its "Generate Meme" handler.                  *)
(*                                                                         *)
(* A Python str is modelled as a sequence of Unicode code points, so that  *)
(* upper(), strip(), splitlines(), split() and urllib.parse.quote() are    *)
(* computed character by character, as CPython computes them.              *)
(***************************************************************************)
EXTENDS Integers, Sequences, FiniteSets, TLC

VARIABLES
    pc,              \* position of the script run / of the function called
    text,            \* parse_caption_output: its argument
    parsed,          \* parse_caption_output: its result
    openai,          \* whether "import openai" succeeded (app.py:12-15)
    openai_key,      \* sidebar/env credential (app.py:146)
    prompt_input,    \* the value of the prompt text_input widget
    prompt,          \* the script variable prompt (app.py:152, 167)
    template,        \* the script variable template (app.py:147, 175)
    random_template, \* checkbox (app.py:148)
    watermark,       \* checkbox (app.py:149)
    watermark_text,  \* text input (app.py:150)
    button,          \* which button triggered this script run
    caption,         \* the pair returned by generate_caption / fallback_caption
    meme_url,        \* the result of make_memegen_url
    shown,           \* the Streamlit elements emitted by this run, in order
    net              \* the effects of this run: requests and random draws

vars == <<pc, text, parsed, openai, openai_key, prompt_input, prompt, template,
          random_template, watermark, watermark_text, button, caption,
          meme_url, shown, net>>

-----------------------------------------------------------------------------
(* Bounds of the input spaces.                                             *)

\* longest single-line text given to the parser in SpecWords
MaxLineLen == 9
\* most vocabulary pieces concatenated into a parser input in SpecParse
MaxPieces == 5
\* longest caption given to make_memegen_url in SpecUrl
MaxCaptionLen == 2

-----------------------------------------------------------------------------
(* Python str primitives over code-point sequences.                        *)

Range(s) == {s[i] : i \in 1..Len(s)}

Max(a, b) == IF a >= b THEN a ELSE b

\* str.isspace() for the code points of ASCII: \t \n \v \f \r FS GS RS US SP
WhiteSpace == {9, 10, 11, 12, 13, 28, 29, 30, 31, 32}

\* the line boundaries of str.splitlines()
LineBreak == {10, 11, 12, 13, 28, 29, 30, 133, 8232, 8233}

\* str.upper() on one code point (ASCII letters; the other modelled code
\* points have no case)
ToUpper(c) == IF c \in 97..122 THEN c - 32 ELSE c

UpperStr(s) == [i \in 1..Len(s) |-> ToUpper(s[i])]

Min(a, b) == IF a <= b THEN a ELSE b

\* the slice s[i:j] of Python, for 0 <= i and 0 <= j: indices past the end
\* are clipped
Slice(s, i, j) ==
    LET hi == Min(j, Len(s))
    IN  IF i >= hi THEN <<>> ELSE [k \in 1..(hi - i) |-> s[i + k]]

\* str.startswith
StartsWith(s, p) == Slice(s, 0, Len(p)) = p

\* p in s
Contains(s, p) ==
    \E i \in 0..(Len(s) - Len(p)) : Slice(s, i, i + Len(p)) = p

\* str.strip()
Strip(s) ==
    LET keep == {i \in 1..Len(s) : s[i] \notin WhiteSpace}
    IN  IF keep = {} THEN <<>>
        ELSE LET lo == CHOOSE i \in keep : \A j \in keep : i <= j
                 hi == CHOOSE i \in keep : \A j \in keep : i >= j
             IN  Slice(s, lo - 1, hi)

\* str.splitlines(): "\r\n" is one boundary, a final boundary opens no line
RECURSIVE SplitLinesFrom(_, _, _, _)
SplitLinesFrom(s, i, cur, acc) ==
    IF i > Len(s) THEN (IF cur = <<>> THEN acc ELSE Append(acc, cur))
    ELSE IF s[i] = 13 /\ i < Len(s) /\ s[i + 1] = 10
         THEN SplitLinesFrom(s, i + 2, <<>>, Append(acc, cur))
    ELSE IF s[i] \in LineBreak
         THEN SplitLinesFrom(s, i + 1, <<>>, Append(acc, cur))
    ELSE SplitLinesFrom(s, i + 1, Append(cur, s[i]), acc)

SplitLines(s) == SplitLinesFrom(s, 1, <<>>, <<>>)

\* str.split() with no argument: runs of whitespace separate, no empty words
RECURSIVE SplitWordsFrom(_, _, _, _)
SplitWordsFrom(s, i, cur, acc) ==
    IF i > Len(s) THEN (IF cur = <<>> THEN acc ELSE Append(acc, cur))
    ELSE IF s[i] \in WhiteSpace
         THEN SplitWordsFrom(s, i + 1, <<>>,
                             IF cur = <<>> THEN acc ELSE Append(acc, cur))
    ELSE SplitWordsFrom(s, i + 1, Append(cur, s[i]), acc)

SplitWords(s) == SplitWordsFrom(s, 1, <<>>, <<>>)

\* concatenation of a sequence of strings, by halves
RECURSIVE Concat(_)
Concat(ss) ==
    IF Len(ss) = 0 THEN <<>>
    ELSE IF Len(ss) = 1 THEN ss[1]
    ELSE LET h == Len(ss) \div 2
         IN  Concat(Slice(ss, 0, h)) \o Concat(Slice(ss, h, Len(ss)))

\* " ".join(words)
JoinSpace(words) ==
    Concat([k \in 1..Len(words) |->
               IF k = 1 THEN words[k] ELSE <<32>> \o words[k]])

\* line.split(":", 1)[1]: what follows the first colon
AfterFirstColon(line) ==
    LET at == CHOOSE i \in 1..Len(line) :
                  line[i] = 58 /\ \A j \in 1..(i - 1) : line[j] # 58
    IN  Slice(line, at, Len(line))

-----------------------------------------------------------------------------
(* parse_caption_output (app.py:37-58)                                     *)

\* "TOP:" and "BOTTOM:"
TOP_MARK == <<84, 79, 80, 58>>
BOTTOM_MARK == <<66, 79, 84, 84, 79, 77, 58>>

Pair(t, b) == [raised |-> FALSE, top |-> t, bottom |-> b]
\* an exception leaving the function
Raised == [raised |-> TRUE, top |-> <<>>, bottom |-> <<>>]

\* the for loop of app.py:41-46: a later marker line overwrites an earlier one
RECURSIVE MarkerScan(_, _, _)
MarkerScan(lines, t, b) ==
    IF lines = <<>> THEN Pair(t, b)
    ELSE LET line == Head(lines)
             up == UpperStr(line)
         IN  IF StartsWith(up, TOP_MARK)
             THEN MarkerScan(Tail(lines), Strip(AfterFirstColon(line)), b)
             ELSE IF StartsWith(up, BOTTOM_MARK)
             THEN MarkerScan(Tail(lines), t, Strip(AfterFirstColon(line)))
             ELSE MarkerScan(Tail(lines), t, b)

\* [p.strip() for p in text.splitlines() if p.strip()]
NonEmptyLines(s) ==
    LET ls == SplitLines(s)
    IN  [k \in 1..Len(SelectSeq(ls, LAMBDA l : Strip(l) # <<>>)) |->
            Strip(SelectSeq(ls, LAMBDA l : Strip(l) # <<>>)[k])]

\* the condition of app.py:40
HasMarker(stripped) ==
    \/ Contains(UpperStr(stripped), TOP_MARK)
    \/ Contains(UpperStr(stripped), BOTTOM_MARK)

\* SplitHalves with the middle rounded up: top would get the extra word
SplitHalvesRoundedUp(stripped) ==
    LET words == SplitWords(stripped)
        mid == Max(1, (Len(words) + 1) \div 2)
    IN  Pair(JoinSpace(Slice(words, 0, mid)),
             JoinSpace(Slice(words, mid, Len(words))))

\* the else branch of app.py:53-57
SplitHalves(stripped) ==
    LET words == SplitWords(stripped)
        mid == Max(1, Len(words) \div 2)
    IN  Pair(JoinSpace(Slice(words, 0, mid)),
             JoinSpace(Slice(words, mid, Len(words))))

parse_caption_output(t) ==
    LET stripped == Strip(t)
    IN  IF HasMarker(stripped)
        THEN MarkerScan(SplitLines(stripped), <<>>, <<>>)
        ELSE IF 10 \in Range(stripped)
        THEN LET parts == NonEmptyLines(stripped)
             IN  IF Len(parts) >= 2 THEN Pair(parts[1], parts[2])
                 ELSE IF Len(parts) = 1 THEN Pair(parts[1], <<>>)
                 ELSE Raised   \* parts[0] of an empty list: IndexError
        ELSE SplitHalves(stripped)

-----------------------------------------------------------------------------
(* Program data, as code-point sequences.                                  *)

\* app.py:26-29
MEME_TEMPLATES ==
    <<
      \* 'drake'
      <<100, 114, 97, 107, 101>>,
      \* 'distracted-boyfriend'
      <<100, 105, 115, 116, 114, 97, 99, 116, 101, 100, 45, 98, 111, 121,
        102, 114, 105, 101, 110, 100>>,
      \* 'two-buttons'
      <<116, 119, 111, 45, 98, 117, 116, 116, 111, 110, 115>>,
      \* 'futurama-fry'
      <<102, 117, 116, 117, 114, 97, 109, 97, 45, 102, 114, 121>>,
      \* 'success-kid'
      <<115, 117, 99, 99, 101, 115, 115, 45, 107, 105, 100>>,
      \* 'doge'
      <<100, 111, 103, 101>>,
      \* 'one-does-not-simply'
      <<111, 110, 101, 45, 100, 111, 101, 115, 45, 110, 111, 116, 45, 115,
        105, 109, 112, 108, 121>>,
      \* 'gru'
      <<103, 114, 117>>,
      \* 'mocking-spongebob'
      <<109, 111, 99, 107, 105, 110, 103, 45, 115, 112, 111, 110, 103, 101,
        98, 111, 98>>,
      \* 'rollsafe'
      <<114, 111, 108, 108, 115, 97, 102, 101>>
    >>

\* app.py:160-166
sample_prompts ==
    <<
      \* 'When the coffee kicks in'
      <<87, 104, 101, 110, 32, 116, 104, 101, 32, 99, 111, 102, 102, 101,
        101, 32, 107, 105, 99, 107, 115, 32, 105, 110>>,
      \* 'When deadline is tomorrow'
      <<87, 104, 101, 110, 32, 100, 101, 97, 100, 108, 105, 110, 101, 32,
        105, 115, 32, 116, 111, 109, 111, 114, 114, 111, 119>>,
      \* 'When you fix a bug at 3 AM'
      <<87, 104, 101, 110, 32, 121, 111, 117, 32, 102, 105, 120, 32, 97,
        32, 98, 117, 103, 32, 97, 116, 32, 51, 32, 65, 77>>,
      \* 'Me explaining AI to my family'
      <<77, 101, 32, 101, 120, 112, 108, 97, 105, 110, 105, 110, 103, 32,
        65, 73, 32, 116, 111, 32, 109, 121, 32, 102, 97, 109, 105, 108, 121>>,
      \* 'When WiFi resumes after outage'
      <<87, 104, 101, 110, 32, 87, 105, 70, 105, 32, 114, 101, 115, 117,
        109, 101, 115, 32, 97, 102, 116, 101, 114, 32, 111, 117, 116, 97,
        103, 101>>
    >>

\* app.py:61-66, the first components
punch_tops ==
    <<
      \* 'When you'
      <<87, 104, 101, 110, 32, 121, 111, 117>>,
      \* 'Me trying to'
      <<77, 101, 32, 116, 114, 121, 105, 110, 103, 32, 116, 111>>,
      \* 'Expectation:'
      <<69, 120, 112, 101, 99, 116, 97, 116, 105, 111, 110, 58>>,
      \* 'When the deadline is'
      <<87, 104, 101, 110, 32, 116, 104, 101, 32, 100, 101, 97, 100, 108,
        105, 110, 101, 32, 105, 115>>
    >>

\* app.py:61-66, the second components
punch_bottoms ==
    <<
      \* 'but your code says no'
      <<98, 117, 116, 32, 121, 111, 117, 114, 32, 99, 111, 100, 101, 32,
        115, 97, 121, 115, 32, 110, 111>>,
      \* 'vs reality'
      <<118, 115, 32, 114, 101, 97, 108, 105, 116, 121>>,
      \* 'Reality:'
      <<82, 101, 97, 108, 105, 116, 121, 58>>,
      \* "and you haven't started"
      <<97, 110, 100, 32, 121, 111, 117, 32, 104, 97, 118, 101, 110, 39,
        116, 32, 115, 116, 97, 114, 116, 101, 100>>
    >>

\* ' — '
DASH_SEP ==
    <<32, 8212, 32>>

\* 'https://api.memegen.link/images/'
MEMEGEN_IMAGES ==
    <<104, 116, 116, 112, 115, 58, 47, 47, 97, 112, 105, 46, 109, 101, 109,
      101, 103, 101, 110, 46, 108, 105, 110, 107, 47, 105, 109, 97, 103,
      101, 115, 47>>

\* '.png'
PNG_SUFFIX ==
    <<46, 112, 110, 103>>

\* 'MemeAI.app'
DEFAULT_WATERMARK ==
    <<77, 101, 109, 101, 65, 73, 46, 97, 112, 112>>

\* ' / '
SHARE_SEP ==
    <<32, 47, 32>>

\* 'https://twitter.com/intent/tweet?text='
TWITTER_TEXT ==
    <<104, 116, 116, 112, 115, 58, 47, 47, 116, 119, 105, 116, 116, 101,
      114, 46, 99, 111, 109, 47, 105, 110, 116, 101, 110, 116, 47, 116,
      119, 101, 101, 116, 63, 116, 101, 120, 116, 61>>

\* '&url='
AND_URL ==
    <<38, 117, 114, 108, 61>>

\* 'https://api.whatsapp.com/send?text='
WHATSAPP_TEXT ==
    <<104, 116, 116, 112, 115, 58, 47, 47, 97, 112, 105, 46, 119, 104, 97,
      116, 115, 97, 112, 112, 46, 99, 111, 109, 47, 115, 101, 110, 100, 63,
      116, 101, 120, 116, 61>>

\* 'https://www.reddit.com/submit?title='
REDDIT_TITLE ==
    <<104, 116, 116, 112, 115, 58, 47, 47, 119, 119, 119, 46, 114, 101,
      100, 100, 105, 116, 46, 99, 111, 109, 47, 115, 117, 98, 109, 105,
      116, 63, 116, 105, 116, 108, 101, 61>>

\* 'hello world', the caption of the URL example
HELLO_WORLD ==
    <<104, 101, 108, 108, 111, 32, 119, 111, 114, 108, 100>>

\* 'hello%20world', its expected path segment
HELLO_WORLD_ENC ==
    <<104, 101, 108, 108, 111, 37, 50, 48, 119, 111, 114, 108, 100>>

\* message contents the chat completion may return
ResponseTexts ==
    <<
      \* 'TOP: a\nBOTTOM: b'
      <<84, 79, 80, 58, 32, 97, 10, 66, 79, 84, 84, 79, 77, 58, 32, 98>>,
      \* 'top: a\n  bottom: b'
      <<116, 111, 112, 58, 32, 97, 10, 32, 32, 98, 111, 116, 116, 111, 109,
        58, 32, 98>>,
      \* 'TOP: a\nTOP: b\nBOTTOM: c'
      <<84, 79, 80, 58, 32, 97, 10, 84, 79, 80, 58, 32, 98, 10, 66, 79, 84,
        84, 79, 77, 58, 32, 99>>,
      \* "don't stop: a\nb"
      <<100, 111, 110, 39, 116, 32, 115, 116, 111, 112, 58, 32, 97, 10, 98>>,
      \* 'a b c'
      <<97, 32, 98, 32, 99>>,
      \* 'a\nb'
      <<97, 10, 98>>,
      \* ''
      <<>>,
      \* ' \n '
      <<32, 10, 32>>,
      \* 'TOP:\nBOTTOM:'
      <<84, 79, 80, 58, 10, 66, 79, 84, 84, 79, 77, 58>>
    >>

\* prompts typed by the user
Prompts ==
    <<
      \* ''
      <<>>,
      \* 'hi'
      <<104, 105>>,
      \* 'x/y'
      <<120, 47, 121>>
    >>

\* credentials: none, or a key
Keys ==
    <<
      \* ''
      <<>>,
      \* 'sk-1'
      <<115, 107, 45, 49>>
    >>

\* vocabulary of the parser inputs of SpecParse
ParsePieces ==
    <<
      \* 'TOP:'
      <<84, 79, 80, 58>>,
      \* 'top:'
      <<116, 111, 112, 58>>,
      \* 'BOTTOM:'
      <<66, 79, 84, 84, 79, 77, 58>>,
      \* ' '
      <<32>>,
      \* '\n'
      <<10>>,
      \* 'x'
      <<120>>,
      \* 's'
      <<115>>
    >>

-----------------------------------------------------------------------------
(* fallback_caption (app.py:60-70)                                         *)

\* fallback_caption with top and bottom drawn from two different templates
fallback_caption_two_draws(p, i) ==
    Pair(IF p # <<>> THEN p \o DASH_SEP \o punch_tops[i] ELSE punch_tops[i],
         punch_bottoms[(i % Len(punch_bottoms)) + 1])

\* i is the index random.choice draws (app.py:67); one tuple t gives both
\* t[0] and t[1]
fallback_caption(p, i) ==
    Pair(IF p # <<>> THEN p \o DASH_SEP \o punch_tops[i] ELSE punch_tops[i],
         punch_bottoms[i])

-----------------------------------------------------------------------------
(* generate_caption (app.py:72-98)                                         *)

\* what openai.ChatCompletion.create and the reading of its result
\* (app.py:86-92) can do: return a message content, or raise
RequestOutcomes ==
    {[kind |-> "ok", content |-> ResponseTexts[k]] : k \in 1..Len(ResponseTexts)}
    \cup {[kind |-> k, content |-> <<>>] :
            k \in {"network_error", "auth_error", "timeout", "malformed"}}

\* UsesRemote without the test of the library
UsesRemoteKeyOnly(key, lib) == key # <<>>

\* the condition of app.py:73, negated: the remote path is taken
UsesRemote(key, lib) == key # <<>> /\ lib

\* CaptionAfterRequest without the test of app.py:94-95
CaptionAfterRequestUnchecked(p, o, i) ==
    IF o.kind # "ok" THEN fallback_caption(p, i)
    ELSE LET r == parse_caption_output(o.content)
         IN  IF r.raised THEN fallback_caption(p, i) ELSE r

\* app.py:92-98: the value returned once the request has ended with outcome o;
\* i is the index fallback_caption would draw
CaptionAfterRequest(p, o, i) ==
    IF o.kind # "ok" THEN fallback_caption(p, i)            \* except Exception
    ELSE LET r == parse_caption_output(o.content)
         IN  IF r.raised THEN fallback_caption(p, i)        \* except Exception
             ELSE IF r.top = <<>> /\ r.bottom = <<>>
             THEN fallback_caption(p, i)                    \* app.py:94-95
             ELSE r

-----------------------------------------------------------------------------
(* make_memegen_url (app.py:100-103) and urllib.parse.quote                *)

\* bytes quote() never encodes: A-Z a-z 0-9 _ . - ~
AlwaysSafe == (65..90) \cup (97..122) \cup (48..57) \cup {95, 46, 45, 126}

\* str.encode("utf-8") of one code point
Utf8(c) ==
    IF c < 128 THEN <<c>>
    ELSE IF c < 2048 THEN <<192 + (c \div 64), 128 + (c % 64)>>
    ELSE IF c < 65536
    THEN <<224 + (c \div 4096), 128 + ((c \div 64) % 64), 128 + (c % 64)>>
    ELSE <<240 + (c \div 262144), 128 + ((c \div 4096) % 64),
           128 + ((c \div 64) % 64), 128 + (c % 64)>>

\* str.encode("utf-8")
Utf8Str(s) == Concat([k \in 1..Len(s) |-> Utf8(s[k])])

\* one upper-case hexadecimal digit, as a code point
HexDigit(n) == IF n < 10 THEN 48 + n ELSE 55 + n

\* "%XX" of a byte, or the byte itself when it is safe
QuoteByte(b, safe) ==
    IF b \in AlwaysSafe \cup safe THEN <<b>>
    ELSE <<37, HexDigit(b \div 16), HexDigit(b % 16)>>

QuoteBytes(bs, safe) == Concat([k \in 1..Len(bs) |-> QuoteByte(bs[k], safe)])

\* urllib.parse.quote(s, safe=...)
quote(s, safe) == QuoteBytes(Utf8Str(s), safe)

\* enc with quote's default safe="/"
enc_default_safe(s) == IF s # <<>> THEN quote(s, {47}) ELSE <<95>>

\* the inner function of app.py:101-102: quote(s, safe='') if s else "_"
enc(s) == IF s # <<>> THEN quote(s, {}) ELSE <<95>>

make_memegen_url(tpl, top, bottom) ==
    MEMEGEN_IMAGES \o tpl \o <<47>> \o enc(top) \o <<47>> \o enc(bottom)
        \o PNG_SUFFIX

-----------------------------------------------------------------------------
(* download_image_bytes (app.py:105-108)                                   *)

\* requests.get(url, timeout=10) followed by raise_for_status(): a 2xx
\* response whose body is the rendered PNG, a 2xx response whose body is no
\* decodable image, or an exception
FetchOutcomes == {"png", "not_an_image", "network_error", "non_2xx", "timeout"}

FetchFails(o) == o \in {"network_error", "non_2xx", "timeout"}

\* res.content: the bytes, named by what they are bytes of
ImageBytes(url, o) ==
    [decodable |-> (o = "png"), of |-> url, marks |-> <<>>]

-----------------------------------------------------------------------------
(* add_watermark (app.py:110-132)                                          *)

\* Image.open raises on bytes that are no image (app.py:111)
AddWatermarkRaises(img) == ~img.decodable

\* the re-encoded composite: the image with the text drawn onto it
add_watermark(img, wm) == [img EXCEPT !.marks = Append(@, wm)]

-----------------------------------------------------------------------------
(* make_share_links (app.py:134-141); quote() keeps "/" by default         *)

make_share_links(url, caption_text) ==
    LET t == quote(caption_text, {47})
        u == quote(url, {47})
    IN  [Twitter  |-> TWITTER_TEXT \o t \o AND_URL \o u,
         WhatsApp |-> WHATSAPP_TEXT \o quote(caption_text \o <<32>> \o url, {47}),
         Reddit   |-> REDDIT_TITLE \o t \o AND_URL \o u]

-----------------------------------------------------------------------------
(* The state of a script run.                                              *)

\* one Streamlit element: its kind, its payload and its name (the file name
\* of a download button, the platform of a share link)
El(kind, data, name) == [el |-> kind, data |-> data, name |-> name]

NoEffects ==
    [caption_requests |-> 0, fallback_calls |-> 0, template_draws |-> 0,
     urls_built |-> 0, image_gets |-> 0,
     caption_outcome |-> "none", fetch_outcome |-> "none"]

NoCaption == Pair(<<>>, <<>>)

\* the widgets as Streamlit first renders them (app.py:147-157)
WidgetDefaults ==
    /\ prompt_input = <<>>
    /\ prompt = <<>>
    /\ template = MEME_TEMPLATES[1]
    /\ random_template = FALSE
    /\ watermark = TRUE
    /\ watermark_text = DEFAULT_WATERMARK
    /\ button = "none"

NothingDone ==
    /\ caption = NoCaption
    /\ meme_url = <<>>
    /\ shown = <<>>
    /\ net = NoEffects

\* the first run of the script: no button has been pressed
Init ==
    /\ pc = "script"
    /\ text = <<>>
    /\ parsed = NoCaption
    /\ openai \in BOOLEAN
    /\ openai_key \in Range(Keys)
    /\ WidgetDefaults
    /\ NothingDone

-----------------------------------------------------------------------------
(* generate_caption, step by step (app.py:72-98)                           *)

\* app.py:73-74
GenerateCaptionLocal ==
    /\ pc = "generate_caption"
    /\ ~UsesRemote(openai_key, openai)
    /\ \E i \in 1..Len(punch_tops) : caption' = fallback_caption(prompt, i)
    /\ net' = [net EXCEPT !.fallback_calls = @ + 1]
    /\ pc' = "caption_returned"
    /\ UNCHANGED <<text, parsed, openai, openai_key, prompt_input, prompt,
                   template, random_template, watermark, watermark_text,
                   button, meme_url, shown>>

\* app.py:75-91: the request leaves
GenerateCaptionRequest ==
    /\ pc = "generate_caption"
    /\ UsesRemote(openai_key, openai)
    /\ net' = [net EXCEPT !.caption_requests = @ + 1]
    /\ pc' = "caption_request"
    /\ UNCHANGED <<text, parsed, openai, openai_key, prompt_input, prompt,
                   template, random_template, watermark, watermark_text,
                   button, caption, meme_url, shown>>

\* whether CaptionAfterRequest calls fallback_caption
FallsBack(o) ==
    \/ o.kind # "ok"
    \/ parse_caption_output(o.content).raised
    \/ /\ parse_caption_output(o.content).top = <<>>
       /\ parse_caption_output(o.content).bottom = <<>>

\* app.py:92-98: the request ends, by a response or by an exception
GenerateCaptionResponse ==
    /\ pc = "caption_request"
    /\ \E o \in RequestOutcomes :
         /\ text' = o.content
         /\ parsed' = IF o.kind = "ok" THEN parse_caption_output(o.content)
                      ELSE NoCaption
         /\ \E i \in (IF FallsBack(o) THEN 1..Len(punch_tops) ELSE {1}) :
              caption' = CaptionAfterRequest(prompt, o, i)
         /\ net' = [net EXCEPT !.fallback_calls =
                                   IF FallsBack(o) THEN @ + 1 ELSE @,
                               !.caption_outcome = o.kind]
    /\ pc' = "caption_returned"
    /\ UNCHANGED <<openai, openai_key, prompt_input, prompt, template,
                   random_template, watermark, watermark_text, button,
                   meme_url, shown>>

-----------------------------------------------------------------------------
(* The script run (app.py:144-199)                                         *)

\* app.py:159, 170: neither button was pressed
ScriptNoButton ==
    /\ pc = "script"
    /\ button = "none"
    /\ pc' = "done"
    /\ UNCHANGED <<text, parsed, openai, openai_key, prompt_input, prompt,
                   template, random_template, watermark, watermark_text,
                   button, caption, meme_url, shown, net>>

\* app.py:159-167
SurpriseMe ==
    /\ pc = "script"
    /\ button = "random"
    /\ \E k \in 1..Len(sample_prompts) : prompt' = sample_prompts[k]
    /\ pc' = "rerun"
    /\ UNCHANGED <<text, parsed, openai, openai_key, prompt_input, template,
                   random_template, watermark, watermark_text, button,
                   caption, meme_url, shown, net>>

\* app.py:168: st.rerun() ends this run and starts the script again; the
\* widgets keep their values and no button is pressed
StRerun ==
    /\ pc = "rerun"
    /\ prompt' = prompt_input
    /\ button' = "none"
    /\ pc' = "script"
    /\ UNCHANGED <<text, parsed, openai, openai_key, prompt_input, template,
                   random_template, watermark, watermark_text, caption,
                   meme_url, shown, net>>

\* PromptMissing without the test
PromptNeverMissing(p) == FALSE

\* the condition of app.py:171: not prompt
PromptMissing(p) == p = <<>>

\* app.py:170-172
GenerateEmptyPrompt ==
    /\ pc = "script"
    /\ button = "generate"
    /\ PromptMissing(prompt)
    /\ shown' = Append(shown, El("info", <<>>, ""))
    /\ pc' = "done"
    /\ UNCHANGED <<text, parsed, openai, openai_key, prompt_input, prompt,
                   template, random_template, watermark, watermark_text,
                   button, caption, meme_url, net>>

\* app.py:173-177, up to the call of generate_caption
GenerateStart ==
    /\ pc = "script"
    /\ button = "generate"
    /\ ~PromptMissing(prompt)
    /\ IF random_template
       THEN /\ template' \in Range(MEME_TEMPLATES)
            /\ net' = [net EXCEPT !.template_draws = @ + 1]
       ELSE UNCHANGED <<template, net>>
    /\ pc' = "generate_caption"
    /\ UNCHANGED <<text, parsed, openai, openai_key, prompt_input, prompt,
                   random_template, watermark, watermark_text, button,
                   caption, meme_url, shown>>

\* app.py:178-182
GenerateShowCaption ==
    /\ pc = "caption_returned"
    /\ meme_url' = make_memegen_url(template, caption.top, caption.bottom)
    /\ net' = [net EXCEPT !.urls_built = @ + 1]
    /\ shown' = shown \o <<El("success", <<>>, ""),
                           El("write_top", caption.top, ""),
                           El("write_bottom", caption.bottom, ""),
                           El("markdown_preview", <<>>, "")>>
    /\ pc' = "fetch"
    /\ UNCHANGED <<text, parsed, openai, openai_key, prompt_input, prompt,
                   template, random_template, watermark, watermark_text,
                   button, caption>>

\* app.py:192-197: the share heading and the three links
ShareElements(url, cap) ==
    LET links == make_share_links(url, cap.top \o SHARE_SEP \o cap.bottom)
    IN  <<El("markdown_share", <<>>, ""),
          El("link", links.Twitter, "Twitter"),
          El("link", links.WhatsApp, "WhatsApp"),
          El("link", links.Reddit, "Reddit")>>

\* RenderFetched without the try/except: Streamlit shows the exception
RenderFetchedUncaught(url, cap, o, wm_on, wm_text, image_raises) ==
    LET img == ImageBytes(url, o)
        failed == <<El("uncaught_exception", <<>>, "")>>
    IN  IF FetchFails(o) \/ image_raises THEN failed
        ELSE IF wm_on /\ AddWatermarkRaises(img)
        THEN <<El("image", img, "")>> \o failed
        ELSE <<El("image", img, ""),
               El("download_button",
                  IF wm_on THEN add_watermark(img, wm_text) ELSE img,
                  "meme.png")>>
             \o ShareElements(url, cap)

\* app.py:183-199: the elements the try block emits once requests.get has
\* ended with outcome o; image_raises says whether st.image raises
RenderFetched(url, cap, o, wm_on, wm_text, image_raises) ==
    LET img == ImageBytes(url, o)
        failed == <<El("error", <<>>, "")>>
    IN  IF FetchFails(o) THEN failed
        ELSE IF image_raises THEN failed
        ELSE IF wm_on
        THEN IF AddWatermarkRaises(img)
             THEN <<El("image", img, "")>> \o failed
             ELSE <<El("image", img, ""),
                    El("download_button", add_watermark(img, wm_text),
                       "meme.png")>>
                  \o ShareElements(url, cap)
        ELSE <<El("image", img, ""), El("download_button", img, "meme.png")>>
             \o ShareElements(url, cap)

\* app.py:183-199
GenerateFetch ==
    /\ pc = "fetch"
    /\ \E o \in FetchOutcomes :
         \E image_raises \in (IF o = "not_an_image" THEN BOOLEAN ELSE {FALSE}) :
            /\ shown' = shown \o RenderFetched(meme_url, caption, o, watermark,
                                               watermark_text, image_raises)
            /\ net' = [net EXCEPT !.image_gets = @ + 1,
                                  !.fetch_outcome = o]
    /\ pc' = "done"
    /\ UNCHANGED <<text, parsed, openai, openai_key, prompt_input, prompt,
                   template, random_template, watermark, watermark_text,
                   button, caption, meme_url>>

\* the user changes one widget or presses one button: Streamlit runs the
\* script again from the top; the widgets keep their values, a button is
\* True only in the run its press starts, nothing else is kept
UserInteraction ==
    /\ pc = "done"
    /\ \E w \in {"prompt", "openai_key", "template", "random_template",
                 "watermark", "watermark_text", "generate_btn", "random_btn"} :
         /\ prompt_input' \in
               (IF w = "prompt" THEN Range(Prompts) ELSE {prompt_input})
         /\ openai_key' \in
               (IF w = "openai_key" THEN Range(Keys) ELSE {openai_key})
         /\ template' \in
               (IF w = "template" THEN Range(MEME_TEMPLATES) ELSE {template})
         /\ random_template' =
               (IF w = "random_template" THEN ~random_template
                ELSE random_template)
         /\ watermark' = (IF w = "watermark" THEN ~watermark ELSE watermark)
         /\ watermark_text' \in
               (IF w = "watermark_text" THEN {DEFAULT_WATERMARK, <<>>}
                ELSE {watermark_text})
         /\ button' = (IF w = "generate_btn" THEN "generate"
                       ELSE IF w = "random_btn" THEN "random" ELSE "none")
    /\ prompt' = prompt_input'
    /\ caption' = NoCaption
    /\ meme_url' = <<>>
    /\ shown' = <<>>
    /\ net' = NoEffects
    /\ text' = <<>>
    /\ parsed' = NoCaption
    /\ pc' = "script"
    /\ UNCHANGED openai

Next ==
    \/ ScriptNoButton
    \/ SurpriseMe
    \/ StRerun
    \/ GenerateEmptyPrompt
    \/ GenerateStart
    \/ GenerateCaptionLocal
    \/ GenerateCaptionRequest
    \/ GenerateCaptionResponse
    \/ GenerateShowCaption
    \/ GenerateFetch
    \/ UserInteraction

Spec == Init /\ [][Next]_vars

-----------------------------------------------------------------------------
(* generate_caption called on its own, with every prompt.                  *)

InitCaption ==
    /\ pc = "generate_caption"
    /\ text = <<>>
    /\ parsed = NoCaption
    /\ openai \in BOOLEAN
    /\ openai_key \in Range(Keys)
    /\ prompt_input \in Range(Prompts)
    /\ prompt = prompt_input
    /\ template = MEME_TEMPLATES[1]
    /\ random_template = FALSE
    /\ watermark = TRUE
    /\ watermark_text = DEFAULT_WATERMARK
    /\ button = "none"
    /\ NothingDone

NextCaption ==
    \/ GenerateCaptionLocal
    \/ GenerateCaptionRequest
    \/ GenerateCaptionResponse

SpecCaption == InitCaption /\ [][NextCaption]_vars

-----------------------------------------------------------------------------
(* parse_caption_output called on its own.                                 *)

\* every string of at most n code points of alphabet
StringsUpTo(alphabet, n) == UNION {[1..k -> alphabet] : k \in 0..n}

\* single-line texts of the letters a, b and the space
LineTexts == StringsUpTo({97, 98, 32}, MaxLineLen)

\* texts put together from at most MaxPieces vocabulary pieces
PieceTexts ==
    {Concat(ps) : ps \in StringsUpTo(Range(ParsePieces), MaxPieces)}

ParserIdle ==
    /\ pc = "parse"
    /\ parsed = NoCaption
    /\ openai = FALSE
    /\ openai_key = <<>>
    /\ WidgetDefaults
    /\ NothingDone

CallParse ==
    /\ pc = "parse"
    /\ parsed' = parse_caption_output(text)
    /\ pc' = "parsed"
    /\ UNCHANGED <<text, openai, openai_key, prompt_input, prompt, template,
                   random_template, watermark, watermark_text, button,
                   caption, meme_url, shown, net>>

InitWords == text \in LineTexts /\ ParserIdle

SpecWords == InitWords /\ [][CallParse]_vars

InitParse == text \in PieceTexts /\ ParserIdle

SpecParse == InitParse /\ [][CallParse]_vars

-----------------------------------------------------------------------------
(* make_memegen_url called on its own.                                     *)

\* captions of the code points a, space, "/", "%", "_" and the em dash, and
\* the caption "hello world"
UrlCaptions ==
    StringsUpTo({97, 32, 47, 37, 95, 8212}, MaxCaptionLen) \cup {HELLO_WORLD}

InitUrl ==
    /\ pc = "make_url"
    /\ text = <<>>
    /\ parsed = NoCaption
    /\ openai = FALSE
    /\ openai_key = <<>>
    /\ prompt_input = <<>>
    /\ prompt = <<>>
    /\ template \in {MEME_TEMPLATES[1], MEME_TEMPLATES[2]}
    /\ random_template = FALSE
    /\ watermark = TRUE
    /\ watermark_text = DEFAULT_WATERMARK
    /\ button = "none"
    /\ \E t \in UrlCaptions, b \in UrlCaptions : caption = Pair(t, b)
    /\ meme_url = <<>>
    /\ shown = <<>>
    /\ net = NoEffects

CallMakeMemegenUrl ==
    /\ pc = "make_url"
    /\ meme_url' = make_memegen_url(template, caption.top, caption.bottom)
    /\ pc' = "url_built"
    /\ UNCHANGED <<text, parsed, openai, openai_key, prompt_input, prompt,
                   template, random_template, watermark, watermark_text,
                   button, caption, shown, net>>

SpecUrl == InitUrl /\ [][CallMakeMemegenUrl]_vars

-----------------------------------------------------------------------------
(* Vocabulary of the properties.                                           *)

\* a line that, leading and trailing whitespace aside, reads "TOP: X"
IsTopLine(l) == StartsWith(UpperStr(Strip(l)), TOP_MARK)

\* a line that, leading and trailing whitespace aside, reads "BOTTOM: Y"
IsBottomLine(l) == StartsWith(UpperStr(Strip(l)), BOTTOM_MARK)

\* the X of a line "TOP: X", the Y of a line "BOTTOM: Y"
MarkerValue(l) == Strip(AfterFirstColon(l))

\* the k-th smallest element of a finite set of integers
KthOf(S, k) == CHOOSE i \in S : Cardinality({j \in S : j < i}) = k - 1

\* the pieces of s between the occurrences of the code point c
SplitOn(s, c) ==
    LET cuts == {i \in 1..Len(s) : s[i] = c}
        n == Cardinality(cuts)
        cut(k) == IF k = 0 THEN 0
                  ELSE IF k = n + 1 THEN Len(s) + 1 ELSE KthOf(cuts, k)
    IN  [k \in 1..(n + 1) |-> Slice(s, cut(k - 1), cut(k) - 1)]

\* the value of a hexadecimal digit, -1 for any other code point
HexValue(c) ==
    IF c \in 48..57 THEN c - 48
    ELSE IF c \in 65..70 THEN c - 55
    ELSE IF c \in 97..102 THEN c - 87
    ELSE -1

\* the bytes a percent-encoded path segment stands for
PercentDecode(seg) ==
    LET inEscape(i) == \/ (i > 1 /\ seg[i - 1] = 37)
                       \/ (i > 2 /\ seg[i - 2] = 37)
        starts == {i \in 1..Len(seg) : ~inEscape(i)}
        byte(i) == IF seg[i] # 37 THEN seg[i]
                   ELSE IF i + 2 > Len(seg) THEN -1
                   ELSE IF HexValue(seg[i + 1]) < 0 \/ HexValue(seg[i + 2]) < 0
                   THEN -1
                   ELSE 16 * HexValue(seg[i + 1]) + HexValue(seg[i + 2])
    IN  [k \in 1..Cardinality(starts) |-> byte(KthOf(starts, k))]

\* seg is the path segment of caption c: "_" for the empty caption, else a
\* non-empty percent-encoding of c with unreserved characters only
IsEncodedCaption(seg, c) ==
    IF c = <<>> THEN seg = <<95>>
    ELSE /\ seg # <<>>
         /\ Range(seg) \subseteq AlwaysSafe \cup {37}
         /\ PercentDecode(seg) = Utf8Str(c)

\* the elements of kind k this run has shown
Shown(k) == SelectSeq(shown, LAMBDA e : e.el = k)

\* fallback_caption(p) can return cap
IsFallbackOf(cap, p) ==
    \E k \in 1..Len(punch_tops) :
        /\ ~cap.raised
        /\ cap.bottom = punch_bottoms[k]
        /\ cap.top = IF p = <<>> THEN punch_tops[k]
                     ELSE p \o DASH_SEP \o punch_tops[k]

-----------------------------------------------------------------------------
(* Properties.                                                             *)

\* C1: whenever the text has a line "TOP: X" and a line "BOTTOM: Y" (markers
\* in any letter case, the line possibly indented or repeated), the parser
\* returns exactly (X, Y), trimmed.
C1_MarkerLinesGivePair ==
    pc = "parsed" =>
        \A i, j \in 1..Len(SplitLines(text)) :
            (IsTopLine(SplitLines(text)[i]) /\ IsBottomLine(SplitLines(text)[j]))
                => parsed = Pair(MarkerValue(SplitLines(text)[i]),
                                 MarkerValue(SplitLines(text)[j]))

\* C2: whenever no line begins with "TOP:" or "BOTTOM:" and the text has at
\* least two non-empty lines, the parser returns the first two non-empty
\* lines, trimmed: a marker inside a line does not select the marker rule.
C2_TwoLinesWithoutMarkerLine ==
    (/\ pc = "parsed"
     /\ \A i \in 1..Len(SplitLines(text)) :
            ~IsTopLine(SplitLines(text)[i]) /\ ~IsBottomLine(SplitLines(text)[i])
     /\ Len(NonEmptyLines(text)) >= 2)
        => parsed = Pair(NonEmptyLines(text)[1], NonEmptyLines(text)[2])

\* C3: on a single line of n words without markers, top is the first
\* max(1, n div 2) words and bottom the rest, each joined by single spaces and
\* in the original order; sizes 2 and 2 for n = 4, (w1, "") for n = 1, the
\* extra word of an odd n goes to bottom; n = 0 gives ("", "") and no error.
C3_SingleLineSplitsInHalves ==
    pc = "parsed" =>
        LET words == SplitWords(text)
            n == Len(words)
            tw == SplitWords(parsed.top)
            bw == SplitWords(parsed.bottom)
        IN  /\ ~parsed.raised
            /\ tw \o bw = words
            /\ parsed.top = JoinSpace(tw)
            /\ parsed.bottom = JoinSpace(bw)
            /\ n = 0 => parsed.top = <<>> /\ parsed.bottom = <<>>
            /\ n >= 1 => Len(tw) = Max(1, n \div 2)
            /\ n = 1 => parsed.top = words[1] /\ parsed.bottom = <<>>
            /\ n = 4 => Len(tw) = 2 /\ Len(bw) = 2
            /\ (n >= 3 /\ n % 2 = 1) => Len(bw) = Len(tw) + 1

\* C3 witness: a line of three words has been split into one and two
C3_Witness ==
    /\ pc = "parsed"
    /\ Len(SplitWords(text)) = 3
    /\ Len(SplitWords(parsed.top)) = 1
    /\ Len(SplitWords(parsed.bottom)) = 2
    /\ 32 \in Range(parsed.bottom)

\* C4: with a credential (and the library), whatever the request does, the
\* call returns a pair and no error; if the request failed or the parsed pair
\* is ("", "") the pair is one of fallback_caption(prompt); the pair is never
\* ("", "").
C4_RemoteAlwaysYieldsCaption ==
    pc = "caption_returned" =>
        /\ ~caption.raised
        /\ ~(caption.top = <<>> /\ caption.bottom = <<>>)
        /\ (/\ net.caption_requests = 1
            /\ \/ net.caption_outcome # "ok"
               \/ (parsed.top = <<>> /\ parsed.bottom = <<>>))
               => IsFallbackOf(caption, prompt)

\* C4 witness: the request succeeded with a text that parses to ("", ""), and
\* a fallback pair came back
C4_Witness ==
    /\ pc = "caption_returned"
    /\ net.caption_outcome = "ok"
    /\ text # <<>>
    /\ parsed = NoCaption
    /\ caption.bottom = punch_bottoms[2]

\* C5: no caption request leaves when the credential is empty or the library
\* is missing, and the fallback pair is returned; otherwise exactly one
\* request leaves per call, never a second, whatever its outcome.
C5_AtMostOneCaptionRequest ==
    /\ net.caption_requests <= 1
    /\ (openai_key = <<>> \/ ~openai) => net.caption_requests = 0
    /\ (pc = "caption_returned" /\ (openai_key = <<>> \/ ~openai))
           => IsFallbackOf(caption, prompt)
    /\ (pc = "caption_returned" /\ openai_key # <<>> /\ openai)
           => net.caption_requests = 1

\* C5 witness: a call with a credential whose one request timed out
C5_Witness ==
    /\ pc = "caption_returned"
    /\ openai_key # <<>>
    /\ net.caption_outcome = "timeout"
    /\ net.caption_requests = 1

\* C6: for every prompt and every draw, fallback_caption returns the bottom
\* of one template of the four and the top of that same template, prefixed
\* by "{prompt} -- " when the prompt is not empty; bottom is never empty.
C6_FallbackUsesOneTemplate ==
    (pc = "caption_returned" /\ net.fallback_calls = 1) =>
        /\ IsFallbackOf(caption, prompt)
        /\ caption.bottom # <<>>
        /\ caption.bottom \in Range(punch_bottoms)
        /\ prompt # <<>> => StartsWith(caption.top, prompt)

\* C6 witness: the empty prompt drew the third template
C6_Witness ==
    /\ pc = "caption_returned"
    /\ net.fallback_calls = 1
    /\ prompt = <<>>
    /\ caption = Pair(punch_tops[3], punch_bottoms[3])

\* C7: the URL is base + "/images/" + template + "/" + enc(top) + "/" +
\* enc(bottom) + ".png": cut at "/", it has the template as fifth piece and
\* both captions as sixth and seventh; an empty caption is "_", any other is
\* percent-encoded without a literal space or "/".
C7_UrlHasBothEncodedSegments ==
    pc = "url_built" =>
        LET segs == SplitOn(meme_url, 47)
            last == segs[Len(segs)]
        IN  /\ StartsWith(meme_url, MEMEGEN_IMAGES \o template \o <<47>>)
            /\ Len(segs) = Len(SplitOn(MEMEGEN_IMAGES, 47)) + 2
            /\ segs[Len(segs) - 2] = template
            /\ IsEncodedCaption(segs[Len(segs) - 1], caption.top)
            /\ Len(last) > Len(PNG_SUFFIX)
            /\ Slice(last, Len(last) - Len(PNG_SUFFIX), Len(last)) = PNG_SUFFIX
            /\ IsEncodedCaption(Slice(last, 0, Len(last) - Len(PNG_SUFFIX)),
                                caption.bottom)

\* C7 witness: ("drake", "", "hello world") gave ".../drake/_/hello%20world.png"
C7_Witness ==
    /\ pc = "url_built"
    /\ caption = Pair(<<>>, HELLO_WORLD)
    /\ meme_url = MEMEGEN_IMAGES \o MEME_TEMPLATES[1] \o <<47, 95, 47>>
                    \o HELLO_WORLD_ENC \o PNG_SUFFIX

\* C8: when the GET for the image fails, the run shows a failure message,
\* issues no second GET, shows no image, download button or share link, and
\* ends without an uncaught error.
C8_FetchFailureShowsOnlyError ==
    (pc = "done" /\ FetchFails(net.fetch_outcome)) =>
        /\ net.image_gets = 1
        /\ Len(Shown("error")) = 1
        /\ shown[Len(shown)].el = "error"
        /\ Shown("image") = <<>>
        /\ Shown("download_button") = <<>>
        /\ Shown("link") = <<>>
        /\ Shown("markdown_share") = <<>>
        /\ Shown("uncaught_exception") = <<>>

\* C8 witness: a run whose GET was answered with a non-2xx status
C8_Witness ==
    /\ pc = "done"
    /\ net.fetch_outcome = "non_2xx"
    /\ net.image_gets = 1
    /\ Len(Shown("error")) = 1

\* C9: Generate with an empty prompt shows the guidance message and does
\* nothing else; a caption request or an image GET happens only in a run
\* started by Generate with a non-empty prompt.
C9_EmptyPromptDoesNothing ==
    /\ (pc = "done" /\ button = "generate" /\ prompt = <<>>) =>
          /\ shown = <<El("info", <<>>, "")>>
          /\ net = NoEffects
          /\ caption = NoCaption
          /\ meme_url = <<>>
    /\ (\/ net.caption_requests > 0 \/ net.fallback_calls > 0
        \/ net.template_draws > 0 \/ net.urls_built > 0
        \/ net.image_gets > 0)
          => (button = "generate" /\ prompt # <<>>)

\* C9 witness: Generate was pressed with an empty prompt and the run ended
C9_Witness ==
    /\ pc = "done"
    /\ button = "generate"
    /\ prompt = <<>>
    /\ Len(Shown("info")) = 1

\* C10: in every run whose fetch succeeds, the preview shows the fetched
\* bytes, the three share links carry the URL of the image, and exactly one
\* download button named "meme.png" offers the watermarked bytes when the
\* option is on and the fetched bytes when it is off.
C10_WatermarkOnDownloadOnly ==
    (pc = "done" /\ net.fetch_outcome \in {"png", "not_an_image"}) =>
        LET img == ImageBytes(meme_url, net.fetch_outcome)
        IN  /\ Shown("image") = <<El("image", img, "")>>
            /\ Len(Shown("link")) = 3
            /\ \A k \in 1..Len(Shown("link")) :
                   Contains(Shown("link")[k].data, quote(meme_url, {47}))
            /\ Shown("download_button") =
                   <<El("download_button",
                        IF watermark THEN add_watermark(img, watermark_text)
                        ELSE img,
                        "meme.png")>>

=============================================================================
